---- MODULE Spec2Model ----
(***************************************************************************)
(* A model of the proof-carrying DPLL solver of dpll.py: the resolution    *)
(* rule, unit propagation, the proof rewriting remove_assumption and the   *)
(* recursive search dpll_internal, whose call stack is explicit here.      *)
(*                                                                         *)
(* The clause classes, Literal, first and the result classes live in the   *)
(* module defns, which dpll.py imports; they are modelled from the         *)
(* specification's data model (section 3 and 6).                           *)
(***************************************************************************)
EXTENDS Integers, FiniteSets, Sequences, TLC

\* ------------------------------------------------------------------ bounds
\* Number of propositional variables of the input formulas.
NumVars == 2
\* Largest number of literals in an input (Axiom) clause.
MaxClauseLen == 2
\* Largest number of clauses of an input formula.
MaxClauses == 3
\* Largest number of resolution steps above a leaf in the proof trees that
\* the function-level specification builds.
MaxProofDepth == 2
\* Largest number of clauses of the inputs of the runs checked for termination.
MaxClausesLive == 2

Vars == 1..NumVars

\* ------------------------------------------------------- defns: data model
\* Literal(variable, sign)
Literal(v, s) == [variable |-> v, sign |-> s]

Literals == {Literal(v, s) : v \in Vars, s \in BOOLEAN}

\* Literal.__neg__: the same variable with the sign flipped.
Neg(l) == Literal(l.variable, ~l.sign)

\* Axiom(literals): an input clause, no parents.
Axiom(lits) == [kind |-> "Axiom", literals |-> lits]

\* Assumption(literal): a single-literal clause made by the search.
Assumption(l) == [kind |-> "Assumption", literals |-> {l}]

\* ResolvedClause(literals, clause1, clause2): a derived clause and its
\* two parents.
ResolvedClause(lits, c1, c2) ==
    [kind |-> "ResolvedClause", literals |-> lits, clause1 |-> c1, clause2 |-> c2]

\* Clause.__len__
Len_(c) == Cardinality(c.literals)

\* Clause.__eq__: identity of a clause is its literal set.
ClauseEq(c, d) == c.literals = d.literals

\* set.add on a set of clauses: an element equal to one already present is
\* not added.
SetAdd(S, c) == IF \E d \in S : ClauseEq(d, c) THEN S ELSE S \cup {c}

\* first(unit): the literal of a unit clause.
first(unit) == CHOOSE l \in unit.literals : TRUE

\* SATResult(assignments) / UNSATResult(clause)
SATResult(a) == [sat |-> TRUE, assignments |-> a]
UNSATResult(c) == [sat |-> FALSE, clause |-> c]

\* ----------------------------------------------------------------- resolve
\* res_var = {l.variable for l in c1 if -l in c2}
res_var(c1, c2) == {l.variable : l \in {k \in c1.literals : Neg(k) \in c2.literals}}

\* A faulty resolve: nothing is removed from the union.
resolve_keep_all(c1, c2) ==
    ResolvedClause(c1.literals \cup c2.literals, c1, c2)

\* A faulty resolve: the resolved variables are removed from c1 only.
resolve_one_sided(c1, c2) ==
    ResolvedClause({l \in c1.literals : l.variable \notin res_var(c1, c2)} \cup c2.literals,
                   c1, c2)

\* resolve(c1, c2): the literals of both clauses whose variable is not in
\* res_var, with c1 and c2 as parents.  No test of res_var being non-empty.
resolve(c1, c2) ==
    ResolvedClause({l \in c1.literals \cup c2.literals : l.variable \notin res_var(c1, c2)},
                   c1, c2)

\* ---------------------------------------------------------- unit propagation
Raised == [raised |-> TRUE, formula |-> {}]
Returned(f) == [raised |-> FALSE, formula |-> f]

\* A faulty loop body: a clause holding the negated literal is dropped too.
new_clauses_drop_negated(formula, unit) ==
    LET literal == first(unit) IN
      {c \in formula : literal \notin c.literals /\ Neg(literal) \notin c.literals}

\* A faulty loop body: a clause holding the literal is kept, not dropped.
new_clauses_keep_satisfied(formula, unit) ==
    LET literal == first(unit) IN
      {resolve(clause, unit) :
          clause \in {c \in formula : literal \notin c.literals /\ Neg(literal) \in c.literals}}
      \cup {c \in formula : literal \in c.literals \/ Neg(literal) \notin c.literals}

\* The clauses that the loop of unit_propagate_literal adds to new_formula:
\* a clause holding the literal is dropped, a clause holding its negation is
\* replaced by resolve(clause, unit), any other clause is kept.
new_clauses(formula, unit) ==
    LET literal == first(unit) IN
      {resolve(clause, unit) :
          clause \in {c \in formula : literal \notin c.literals /\ Neg(literal) \in c.literals}}
      \cup {c \in formula : literal \notin c.literals /\ Neg(literal) \notin c.literals}

\* The sets that new_formula.add can leave: among added clauses that are
\* equal (same literal set) the one met first stays, and the order in which
\* `for clause in formula` meets them is the set's iteration order.
added_in_some_order(C) ==
    {S \in SUBSET C : /\ \A c \in C : \E d \in S : ClauseEq(c, d)
                      /\ \A d, e \in S : ClauseEq(d, e) => d = e}

\* A faulty guard: only the empty clause is refused as a unit.
unit_propagate_literal_weak_guard(formula, unit) ==
    IF Len_(unit) = 0
      THEN {Raised}
      ELSE {Returned(f) : f \in added_in_some_order(new_clauses(formula, unit))}

\* unit_propagate_literal(formula, unit): the outcomes of the call; it raises
\* when unit does not have exactly one literal.
unit_propagate_literal(formula, unit) ==
    IF Len_(unit) # 1
      THEN {Raised}
      ELSE {Returned(f) : f \in added_in_some_order(new_clauses(formula, unit))}

\* get_unit_clauses(formula)
get_unit_clauses(formula) == {c \in formula : Len_(c) = 1}

\* assignments[literal.variable] = literal.sign
assign(assignments, literal) ==
    [v \in DOMAIN assignments \cup {literal.variable} |->
        IF v = literal.variable THEN literal.sign ELSE assignments[v]]

\* --------------------------------------------------------- proof rewriting
\* A faulty rewriting: every Assumption parent is cut out, not only the
\* given one.
RECURSIVE remove_assumption_any(_, _)
remove_assumption_any(assumption, clause) ==
    IF clause.kind = "Assumption" THEN clause
    ELSE IF clause.kind = "Axiom" THEN clause
    ELSE IF clause.clause1.kind = "Assumption"
      THEN remove_assumption_any(assumption, clause.clause2)
    ELSE IF clause.clause2.kind = "Assumption"
      THEN remove_assumption_any(assumption, clause.clause1)
    ELSE resolve(remove_assumption_any(assumption, clause.clause1),
                 remove_assumption_any(assumption, clause.clause2))

RECURSIVE remove_assumption(_, _)
remove_assumption(assumption, clause) ==
    IF clause.kind = "Assumption" THEN clause
    ELSE IF clause.kind = "Axiom" THEN clause
    ELSE IF assumption.kind = "ResolvedClause"   \* isinstance(assumption, ResolvedClause)
      THEN IF ClauseEq(clause.clause1, assumption)
             THEN remove_assumption(assumption, clause.clause2)
           ELSE IF ClauseEq(clause.clause2, assumption)
             THEN remove_assumption(assumption, clause.clause1)
           ELSE resolve(remove_assumption(assumption, clause.clause1),
                        remove_assumption(assumption, clause.clause2))
      ELSE clause

\* ------------------------------------------------------------------ search
\* select_variable(formula): the variable of the first literal met when
\* iterating the clauses; which one that is depends on the iteration order
\* of the sets, so every variable of the formula is a possible result.
select_variable(formula) == {l.variable : l \in UNION {c.literals : c \in formula}}

\* The input formulas: sets of at most MaxClauses Axiom clauses, each of at
\* most MaxClauseLen literals.
AxiomClauses == {Axiom(L) : L \in {S \in SUBSET Literals : Cardinality(S) <= MaxClauseLen}}

RECURSIVE SetsUpTo(_, _)
SetsUpTo(U, k) ==
    IF k = 0 THEN {{}}
    ELSE LET P == SetsUpTo(U, k - 1) IN P \cup {s \cup {a} : s \in P, a \in U}

Inputs == SetsUpTo(AxiomClauses, MaxClauses)

NoResult == [kind |-> "None"]
NoAssignments == [v \in {} |-> TRUE]

VARIABLES
    input,        \* the formula given to dpll
    formula,      \* the local `formula` of the active dpll_internal call
    assignments,  \* the one mapping shared by all calls
    pc,           \* position of the active call
    unit_clauses, \* the units of the running `for unit in unit_clauses` still to visit
    stack,        \* the suspended dpll_internal calls, innermost first
    result,       \* the value being returned
    call,         \* function-level runs: the function called last
    arg1,         \* function-level runs: first clause argument (a proof tree)
    arg2,         \* function-level runs: second clause argument
    ret           \* function-level runs: what the call returned

fnvars == <<call, arg1, arg2, ret>>
vars == <<input, formula, assignments, pc, unit_clauses, stack, result, call, arg1, arg2, ret>>

\* dpll(formula): dpll_internal(formula, {})
Init ==
    /\ input \in Inputs
    /\ formula = input
    /\ assignments = NoAssignments
    /\ pc = "propagate"
    /\ unit_clauses = {}
    /\ stack = <<>>
    /\ result = NoResult
    /\ call = "none"
    /\ arg1 = NoResult
    /\ arg2 = NoResult
    /\ ret = NoResult

\* unit_propagate, head of `while True`: collect the units, leave the loop
\* when there are none.
UnitPropagateLoop ==
    /\ pc = "propagate"
    /\ unit_clauses' = get_unit_clauses(formula)
    /\ pc' = IF get_unit_clauses(formula) = {} THEN "check" ELSE "units"
    /\ UNCHANGED <<input, formula, assignments, stack, result>>
    /\ UNCHANGED fnvars

\* unit_propagate, one round of `for unit in unit_clauses`.
UnitPropagateStep ==
    /\ pc = "units"
    /\ \E unit \in unit_clauses :
         \E out \in unit_propagate_literal(formula, unit) :
            /\ IF out.raised
                 THEN /\ pc' = "raised"
                      /\ UNCHANGED <<formula, assignments, unit_clauses>>
                 ELSE /\ formula' = out.formula
                      /\ assignments' = assign(assignments, first(unit))
                      /\ unit_clauses' = unit_clauses \ {unit}
                      /\ pc' = IF unit_clauses' = {} THEN "propagate" ELSE "units"
    /\ UNCHANGED <<input, stack, result>>
    /\ UNCHANGED fnvars

\* dpll_internal: `if not formula: return SATResult(assignments)`
ReturnSAT ==
    /\ pc = "check"
    /\ formula = {}
    /\ result' = SATResult(assignments)
    /\ pc' = "return"
    /\ UNCHANGED <<input, formula, assignments, unit_clauses, stack>>
    /\ UNCHANGED fnvars

\* dpll_internal: `for clause in formula: if len(clause) == 0: return UNSATResult(clause)`
ReturnUNSAT ==
    /\ pc = "check"
    /\ formula # {}
    /\ \E clause \in formula :
         /\ Len_(clause) = 0
         /\ result' = UNSATResult(clause)
    /\ pc' = "return"
    /\ UNCHANGED <<input, formula, assignments, unit_clauses, stack>>
    /\ UNCHANGED fnvars

\* dpll_internal: pick a variable, assume it true and recurse.
Branch ==
    /\ pc = "check"
    /\ formula # {}
    /\ \A clause \in formula : Len_(clause) # 0
    /\ \E branch_on \in select_variable(formula) :
         LET true_assumption == Assumption(Literal(branch_on, TRUE)) IN
           /\ stack' = <<[formula |-> formula, true_assumption |-> true_assumption,
                          at |-> "true_result"]>> \o stack
           /\ formula' = SetAdd(formula, true_assumption)
    /\ pc' = "propagate"
    /\ UNCHANGED <<input, assignments, unit_clauses, result>>
    /\ UNCHANGED fnvars

\* dpll_internal, after a recursive call has returned: the rest of the body
\* of the caller, from `if true_result.sat()` on.
ReturnToCaller ==
    /\ pc = "return"
    /\ stack # <<>>
    /\ LET frame == Head(stack)
           without_assumption == remove_assumption(frame.true_assumption, result.clause)
       IN
         IF frame.at = "true_result"
           THEN IF result.sat
                  THEN /\ stack' = Tail(stack)
                       /\ UNCHANGED <<formula, pc, result>>
                ELSE IF Len_(without_assumption) = 0
                  THEN /\ stack' = Tail(stack)
                       /\ result' = UNSATResult(without_assumption)
                       /\ UNCHANGED <<formula, pc>>
                ELSE /\ stack' = <<[frame EXCEPT !.at = "false_result"]>> \o Tail(stack)
                     /\ formula' = SetAdd(frame.formula, without_assumption)
                     /\ pc' = "propagate"
                     /\ UNCHANGED result
           ELSE /\ stack' = Tail(stack)
                /\ UNCHANGED <<formula, pc, result>>
    /\ UNCHANGED <<input, assignments, unit_clauses>>
    /\ UNCHANGED fnvars

\* dpll: the outermost dpll_internal returns to the caller of dpll.
DpllReturn ==
    /\ pc = "return"
    /\ stack = <<>>
    /\ pc' = "done"
    /\ UNCHANGED <<input, formula, assignments, unit_clauses, stack, result>>
    /\ UNCHANGED fnvars

Next ==
    \/ UnitPropagateLoop
    \/ UnitPropagateStep
    \/ ReturnSAT
    \/ ReturnUNSAT
    \/ Branch
    \/ ReturnToCaller
    \/ DpllReturn

Spec == Init /\ [][Next]_vars

\* The runs checked for termination start from the inputs of at most
\* MaxClausesLive clauses.
LiveInit == Init /\ Cardinality(input) <= MaxClausesLive

\* Every step the program can take is taken eventually: the run is one
\* sequential thread that never blocks.
FairSpec == LiveInit /\ [][Next]_vars /\ WF_vars(Next)

\* ------------------------------------------------- function-level runs
\* The functions of dpll.py called on their own, on clauses and proof trees
\* built by resolution from Axioms and Assumptions.
Leaves == AxiomClauses \cup {Assumption(l) : l \in Literals}

RECURSIVE Depth(_)
Depth(c) ==
    IF c.kind = "ResolvedClause"
      THEN 1 + (IF Depth(c.clause1) >= Depth(c.clause2) THEN Depth(c.clause1)
                                                        ELSE Depth(c.clause2))
      ELSE 0

dpllIdle ==
    /\ input = {}
    /\ formula = {}
    /\ assignments = NoAssignments
    /\ pc = "idle"
    /\ unit_clauses = {}
    /\ stack = <<>>
    /\ result = NoResult

FnInit ==
    /\ dpllIdle
    /\ call = "none"
    /\ arg1 \in Leaves
    /\ arg2 \in Leaves
    /\ ret = NoResult

UnitLeaves == {c \in Leaves : Len_(c) = 1}

\* Grow the proof tree arg1 by one resolution step with the unit leaf arg2,
\* as unit propagation does, on either side, and take a new unit leaf.
FnBuild ==
    /\ pc = "idle"
    /\ call = "none"
    /\ Depth(arg1) < MaxProofDepth
    /\ Len_(arg2) = 1
    /\ \/ res_var(arg1, arg2) # {} /\ arg1' = resolve(arg1, arg2)
       \/ res_var(arg2, arg1) # {} /\ arg1' = resolve(arg2, arg1)
    /\ arg2' \in UnitLeaves
    /\ UNCHANGED <<call, ret>>
    /\ UNCHANGED <<input, formula, assignments, pc, unit_clauses, stack, result>>

\* resolve(arg1, arg2)
FnResolve ==
    /\ pc = "idle"
    /\ call = "none"
    /\ call' = "resolve"
    /\ ret' = resolve(arg1, arg2)
    /\ UNCHANGED <<arg1, arg2>>
    /\ UNCHANGED <<input, formula, assignments, pc, unit_clauses, stack, result>>

\* unit_propagate_literal({arg1}, arg2)
FnUnitPropagateLiteral ==
    /\ pc = "idle"
    /\ call = "none"
    /\ call' = "unit_propagate_literal"
    /\ ret' \in unit_propagate_literal({arg1}, arg2)
    /\ UNCHANGED <<arg1, arg2>>
    /\ UNCHANGED <<input, formula, assignments, pc, unit_clauses, stack, result>>

\* remove_assumption(arg2, arg1), for an Assumption arg2 with arg2 != arg1
FnRemoveAssumption ==
    /\ pc = "idle"
    /\ call = "none"
    /\ arg2.kind = "Assumption"
    /\ ~ClauseEq(arg2, arg1)
    /\ call' = "remove_assumption"
    /\ ret' = remove_assumption(arg2, arg1)
    /\ UNCHANGED <<arg1, arg2>>
    /\ UNCHANGED <<input, formula, assignments, pc, unit_clauses, stack, result>>

FnNext ==
    \/ FnBuild
    \/ FnResolve
    \/ FnUnitPropagateLiteral
    \/ FnRemoveAssumption

FnSpec == FnInit /\ [][FnNext]_vars

\* The runs of dpll together with the function-level runs.
AllSpec == (Init \/ FnInit) /\ [][Next \/ FnNext]_vars

\* ============================================================ properties
\* c is true under the (partial) mapping A.
SatisfiedBy(c, A) ==
    \E l \in c.literals : l.variable \in DOMAIN A /\ A[l.variable] = l.sign

\* Some truth assignment satisfies every clause of F.
Satisfiable(F) == \E A \in [Vars -> BOOLEAN] : \A c \in F : SatisfiedBy(c, A)

\* c holds a literal together with its negation.
Tautological(c) == \E l \in c.literals : Neg(l) \in c.literals

VarsOf(F) == {l.variable : l \in UNION {c.literals : c \in F}}

\* node occurs in the ancestry of clause c as a parent.
RECURSIVE HasParent(_, _)
HasParent(c, node) ==
    /\ c.kind = "ResolvedClause"
    /\ \/ c.clause1 = node
       \/ c.clause2 = node
       \/ HasParent(c.clause1, node)
       \/ HasParent(c.clause2, node)

\* c is a resolution proof from the Axioms in F: every ResolvedClause has the
\* literals resolve gives for its parents and every leaf is an Axiom of F.
RECURSIVE ProofFrom(_, _)
ProofFrom(c, F) ==
    CASE c.kind = "Axiom" -> c \in F
      [] c.kind = "Assumption" -> FALSE
      [] OTHER -> /\ c.literals = resolve(c.clause1, c.clause2).literals
                  /\ ProofFrom(c.clause1, F)
                  /\ ProofFrom(c.clause2, F)

\* C1: dpll decides satisfiability: the result is SAT exactly when some
\* assignment satisfies every clause of the input.
C1_DecidesSatisfiability ==
    pc = "done" => (result.sat <=> Satisfiable(input))

\* C2: SAT correctness: when dpll returns SAT, every Axiom of the input has
\* a literal that the returned assignments make true.
C2_SATCorrect ==
    (pc = "done" /\ result.sat) => \A c \in input : SatisfiedBy(c, result.assignments)

\* C2 witness: a SAT answer for an input of three clauses without a unit
\* clause, found after branching.
C2_Witness ==
    /\ pc = "done"
    /\ result.sat
    /\ Cardinality(input) = 3
    /\ \A c \in input : Len_(c) = 2
    /\ DOMAIN result.assignments = Vars

\* C3: UNSAT proof validity: the proof returned is the empty clause, each of
\* its resolution steps reproduces, and its leaves are Axioms of the input.
C3_UNSATProofValid ==
    (pc = "done" /\ ~result.sat) =>
        (Len_(result.clause) = 0 /\ ProofFrom(result.clause, input))

\* C6 (as stated): when unit_propagate has returned, the formula has no unit
\* clause, no clause with a literal and its negation, and no clause that the
\* assignments satisfy.
C6_PropagationSound_Stated ==
    pc = "check" =>
        \A c \in formula : /\ Len_(c) # 1
                           /\ ~Tautological(c)
                           /\ ~SatisfiedBy(c, assignments)

\* C6 (amended): when unit_propagate has returned, the formula has no unit
\* clause, no clause that the assignments satisfy, and a clause holds a
\* literal with its negation only if an Axiom of the input holds that pair.
C6_PropagationSound ==
    pc = "check" =>
        \A c \in formula :
            /\ Len_(c) # 1
            /\ \A l \in c.literals :
                  Neg(l) \in c.literals =>
                      \E ax \in input : {l, Neg(l)} \subseteq ax.literals
            /\ ~SatisfiedBy(c, assignments)

\* C6 witness: unit_propagate has returned in a nested call after propagating
\* one unit and has left a clause that holds a literal and its negation.
C6_Witness ==
    /\ pc = "check"
    /\ stack # <<>>
    /\ Cardinality(DOMAIN assignments) = 1
    /\ \E c \in formula : Len_(c) = 2 /\ Tautological(c)

\* C7: termination: dpll returns, and the calls of dpll_internal are never
\* nested deeper than the number of variables of the input plus one.
C7_Terminates ==
    /\ [](Len(stack) + 1 <= Cardinality(VarsOf(input)) + 1)
    /\ <>(pc = "done")

\* C7 witness: a call nested as deep as the variables of the input allow,
\* one level per variable, is returning.
C7_Witness ==
    /\ pc = "return"
    /\ Len(stack) = Cardinality(VarsOf(input))
    /\ Len(stack) = NumVars

\* C9: after the true branch is refuted by a proof that uses the
\* true-Assumption as a parent, the call recurses on the formula with the
\* unit clause asserting the variable false.
C9_FalseBranchTaken ==
    [][(/\ pc = "return"
        /\ stack # <<>>
        /\ Head(stack).at = "true_result"
        /\ ~result.sat
        /\ HasParent(result.clause, Head(stack).true_assumption))
       => (/\ pc' = "propagate"
           /\ \E c \in formula' :
                 c.literals = {Neg(first(Head(stack).true_assumption))})]_vars

\* every ResolvedClause in the ancestry of c resolved at least one variable.
RECURSIVE EveryStepResolves(_)
EveryStepResolves(c) ==
    c.kind = "ResolvedClause" =>
        /\ res_var(c.clause1, c.clause2) # {}
        /\ EveryStepResolves(c.clause1)
        /\ EveryStepResolves(c.clause2)

\* C4: removing an Assumption from a proof of the empty clause gives a proof
\* without that Assumption as a parent, of the empty clause when it was not
\* a parent and of the negated assumption literal when it was.
C4_RemoveAssumption ==
    (call = "remove_assumption" /\ Len_(arg1) = 0) =>
        /\ ~HasParent(ret, arg2)
        /\ ret.literals = IF HasParent(arg1, arg2) THEN {Neg(first(arg2))} ELSE {}

\* C5: resolution soundness: for clauses with a complementary variable,
\* resolve returns a ResolvedClause with the two clauses as parents whose
\* literals are the union minus every literal on a resolved variable.
C5_ResolveSound ==
    (call = "resolve" /\ \E l \in arg1.literals : Neg(l) \in arg2.literals) =>
        LET resolvedVars == {v \in Vars : \E l \in arg1.literals :
                                l.variable = v /\ Neg(l) \in arg2.literals}
        IN /\ ret.kind = "ResolvedClause"
           /\ ret.clause1 = arg1
           /\ ret.clause2 = arg2
           /\ ret.literals = (arg1.literals \cup arg2.literals)
                               \ {l \in Literals : l.variable \in resolvedVars}
           /\ ret.literals \subseteq arg1.literals \cup arg2.literals
           /\ \A l \in ret.literals :
                 ~\E k \in arg1.literals \cup arg2.literals :
                     /\ k.variable = l.variable
                     /\ \/ k \in arg1.literals /\ Neg(k) \in arg2.literals
                        \/ k \in arg2.literals /\ Neg(k) \in arg1.literals

\* C5 witness: resolve called on two clauses of two literals that are
\* complementary on both variables.
C5_Witness ==
    /\ call = "resolve"
    /\ Len_(arg1) = 2
    /\ Len_(arg2) = 2
    /\ Cardinality({v \in Vars : \E l \in arg1.literals :
                       l.variable = v /\ Neg(l) \in arg2.literals}) = 2
    /\ ret.literals = {}

\* C8: remove_assumption on a proof tree that does not have the Assumption
\* in its ancestry returns a clause with the same literals, and returns an
\* Axiom or an Assumption itself.
C8_RemoveAbsentAssumption ==
    (call = "remove_assumption" /\ ~HasParent(arg1, arg2)) =>
        /\ ret.literals = arg1.literals
        /\ arg1.kind \in {"Axiom", "Assumption"} => ret = arg1

\* C8 witness: remove_assumption called on a tree of two resolution steps
\* that has another Assumption as a parent.
C8_Witness ==
    /\ call = "remove_assumption"
    /\ ~HasParent(arg1, arg2)
    /\ Depth(arg1) = 2
    /\ \E l \in Literals : HasParent(arg1, Assumption(l))

\* C10 (as stated): propagating a non-unit clause raises, resolve without a
\* complementary variable fails instead of returning a ResolvedClause, and
\* no run of dpll resolves two clauses without a complementary variable.
C10_PreconditionsAbort_Stated ==
    /\ (call = "unit_propagate_literal" /\ Len_(arg2) # 1) => ret = Raised
    /\ (call = "resolve" /\ res_var(arg1, arg2) = {}) => ret.kind # "ResolvedClause"
    /\ pc # "idle" =>
          /\ pc # "raised"
          /\ \A c \in formula : EveryStepResolves(c)
          /\ (pc \in {"return", "done"} /\ ~result.sat) => EveryStepResolves(result.clause)

\* C10 (amended): propagating a non-unit clause raises; resolve without a
\* complementary variable returns the ResolvedClause of all literals of both
\* clauses; no run of dpll resolves two clauses without a complementary
\* variable, and none raises.
C10_PreconditionsAbort ==
    /\ (call = "unit_propagate_literal" /\ Len_(arg2) # 1) => ret = Raised
    /\ (call = "resolve" /\ res_var(arg1, arg2) = {}) =>
          /\ ret.kind = "ResolvedClause"
          /\ ret.literals = arg1.literals \cup arg2.literals
          /\ ret.clause1 = arg1 /\ ret.clause2 = arg2
    /\ pc # "idle" =>
          /\ pc # "raised"
          /\ \A c \in formula : EveryStepResolves(c)
          /\ (pc \in {"return", "done"} /\ ~result.sat) => EveryStepResolves(result.clause)

\* C10 witness: unit_propagate_literal called with a clause of two literals
\* as the unit has raised.
C10_Witness ==
    /\ call = "unit_propagate_literal"
    /\ Len_(arg2) = 2
    /\ ret = Raised

====
